---- MODULE Spec2Model ----
(***************************************************************************)
(* Model of src/streamlit_app.py: one run of the Streamlit script that     *)
(* loads uploaded option-chain CSV files, picks the top strikes by mean    *)
(* open interest from the first loaded file, averages CE/PE last prices    *)
(* per file over those strikes, sorts by timestamp, z-score normalizes     *)
(* and shows charts, a table and a download button.                        *)
(*                                                                         *)
(* Representation of values                                                *)
(*   float      float64, see the section on floats.                        *)
(*   datetime   <<year, month, day, hour, minute, second>>.                *)
(*   str        a sequence of one-character strings.                       *)
(*   DataFrame  [cols |-> set of column names, rows |-> sequence of rows]. *)
(***************************************************************************)
EXTENDS Integers, Sequences, FiniteSets, TLC

\* ---------------------------------------------------------------- bounds
\* Largest number of files in the multi-file inputs.
MaxFiles == 2
\* Largest number of rows of the file in the single-file inputs.
MaxRows == 3
\* Largest number of files in the one-strike inputs.
MaxSeries == 3

\* ------------------------------------------------------ program constants
\* st.sidebar.slider("Top strikes by Open Interest", 1, 20, 6)
SliderMin == 1
SliderMax == 20
SliderDefault == 6

\* ------------------------------------------------------------ naturals
\* Natural numbers wider than the checker's integers: limbs in base 2^13,
\* least significant first, no leading zero limb; zero is <<>>.
Base == 2 ^ 13

LimbBits == 13

RECURSIVE Pow2(_)
Pow2(k) == IF k = 0 THEN 1 ELSE 2 * Pow2(k - 1)

RECURSIVE NTrim(_)
NTrim(a) == IF a = <<>> THEN <<>>
            ELSE IF a[Len(a)] = 0 THEN NTrim(SubSeq(a, 1, Len(a) - 1))
            ELSE a

Limb(a, k) == IF k <= Len(a) THEN a[k] ELSE 0

RECURSIVE NAddFrom(_, _, _, _)
NAddFrom(a, b, k, carry) ==
    IF k > Len(a) /\ k > Len(b)
    THEN (IF carry = 0 THEN <<>> ELSE <<carry>>)
    ELSE LET t == Limb(a, k) + Limb(b, k) + carry
         IN  <<t % Base>> \o NAddFrom(a, b, k + 1, t \div Base)

NAdd(a, b) == NAddFrom(a, b, 1, 0)

\* a - b for a >= b.
RECURSIVE NSubFrom(_, _, _, _)
NSubFrom(a, b, k, borrow) ==
    IF k > Len(a) THEN <<>>
    ELSE LET t == Limb(a, k) - Limb(b, k) - borrow
         IN  <<t % Base>> \o NSubFrom(a, b, k + 1, IF t < 0 THEN 1 ELSE 0)

NSub(a, b) == NTrim(NSubFrom(a, b, 1, 0))

\* -1, 0 or 1 as a < b, a = b or a > b.
RECURSIVE NCmpFrom(_, _, _)
NCmpFrom(a, b, k) ==
    IF k = 0 THEN 0
    ELSE IF a[k] # b[k] THEN (IF a[k] < b[k] THEN -1 ELSE 1)
    ELSE NCmpFrom(a, b, k - 1)

NCmp(a, b) ==
    IF Len(a) # Len(b) THEN (IF Len(a) < Len(b) THEN -1 ELSE 1)
    ELSE NCmpFrom(a, b, Len(a))

\* a * m for 0 < m <= Base.
RECURSIVE NMulFrom(_, _, _, _)
NMulFrom(a, m, k, carry) ==
    IF k > Len(a) THEN (IF carry = 0 THEN <<>> ELSE <<carry>>)
    ELSE LET t == a[k] * m + carry
         IN  <<t % Base>> \o NMulFrom(a, m, k + 1, t \div Base)

NMulSmall(a, m) == NMulFrom(a, m, 1, 0)

\* <<quotient limbs, most significant first, remainder>> of a / n, 0 < n < Base.
RECURSIVE NDivFrom(_, _, _, _)
NDivFrom(a, n, k, rem) ==
    IF k = 0 THEN <<<<>>, rem>>
    ELSE LET t == rem * Base + a[k]
             rest == NDivFrom(a, n, k - 1, t % n)
         IN  <<<<t \div n>> \o rest[1], rest[2]>>

Reverse(seq) == [k \in 1..Len(seq) |-> seq[Len(seq) + 1 - k]]

\* <<quotient, remainder>> of a / n for 0 < n < Base.
NDivSmall(a, n) ==
    LET qr == NDivFrom(a, n, Len(a), 0)
    IN  <<NTrim(Reverse(qr[1])), qr[2]>>

RECURSIVE BitLen(_)
BitLen(n) == IF n = 0 THEN 0 ELSE 1 + BitLen(n \div 2)

NBitLen(a) == IF a = <<>> THEN 0
              ELSE (Len(a) - 1) * LimbBits + BitLen(a[Len(a)])

\* a * 2^k
NShl(a, k) ==
    IF a = <<>> THEN <<>>
    ELSE [j \in 1..(k \div LimbBits) |-> 0] \o NMulSmall(a, Pow2(k % LimbBits))

\* a \div 2^k
NShr(a, k) ==
    IF k \div LimbBits >= Len(a) THEN <<>>
    ELSE NDivSmall(SubSeq(a, k \div LimbBits + 1, Len(a)), Pow2(k % LimbBits))[1]

NIsOdd(a) == a # <<>> /\ a[1] % 2 = 1

\* ------------------------------------------------------------ floats
\* float64 values: NaN is <<>>; a finite value is <<sign, significand,
\* exponent>> standing for sign * significand * 2^exponent, the significand
\* a natural of exactly SignificandBits bits; zero is <<0, <<>>, 0>>.
\* Subnormals, overflow and the sign of zero are outside the inputs drawn.
SignificandBits == 53

NaN == <<>>

Abs(n) == IF n < 0 THEN -n ELSE n

Zero == <<0, <<>>, 0>>

IsNaN(x) == x = NaN

Min(a, b) == IF a <= b THEN a ELSE b

\* Round-half-even decision for n = q * 2^k + r, 0 <= r < 2^k, k > 0: up
\* when r is above half of 2^k, or at half with sticky set or q odd.
RoundUp(n, k, q, sticky) ==
    LET half == NCmp(NSub(n, NShl(q, k)), NShl(<<1>>, k - 1))
    IN  half > 0 \/ (half = 0 /\ (sticky \/ NIsOdd(q)))

\* sign * q * 2^e with q of SignificandBits bits, or of one more after a
\* carry out of the rounding (q is then a power of two).
Normal(sign, q, e) ==
    IF NBitLen(q) > SignificandBits THEN <<sign, NShr(q, 1), e + 1>>
    ELSE <<sign, q, e>>

\* Round for n of SignificandBits + k bits.
RoundAt(sign, n, e, sticky, k) ==
    IF k <= 0 THEN <<sign, NShl(n, -k), e + k>>
    ELSE Normal(sign,
                IF RoundUp(n, k, NShr(n, k), sticky)
                THEN NAdd(NShr(n, k), <<1>>) ELSE NShr(n, k),
                e + k)

\* The float64 nearest to sign * n * 2^e, ties to even; sticky tells that
\* the exact value is slightly above n * 2^e (by less than 2^e).
Round(sign, n, e, sticky) ==
    IF n = <<>> THEN Zero
    ELSE RoundAt(sign, n, e, sticky, NBitLen(n) - SignificandBits)

\* The float64 of a small integer.
Num(k) == IF k = 0 THEN Zero
          ELSE Round(IF k < 0 THEN -1 ELSE 1, <<IF k < 0 THEN -k ELSE k>>, 0, FALSE)

\* 0.1 as float64: 0x1999999999999A * 2^-56.
Tenth == <<1, <<6554, 3276, 1638, 4915, 1>>, -56>>

FNeg(x) == IF IsNaN(x) THEN NaN ELSE <<-x[1], x[2], x[3]>>

\* sx * a * 2^e + sy * b * 2^e, correctly rounded, for signs sx, sy # 0.
FAddAligned(sx, a, sy, b, e) ==
    Round(IF sx = sy \/ NCmp(a, b) > 0 THEN sx ELSE sy,
          IF sx = sy THEN NAdd(a, b)
          ELSE IF NCmp(a, b) >= 0 THEN NSub(a, b) ELSE NSub(b, a),
          e, FALSE)

\* x + y, correctly rounded.
FAdd(x, y) ==
    IF IsNaN(x) \/ IsNaN(y) THEN NaN
    ELSE IF x[1] = 0 THEN y
    ELSE IF y[1] = 0 THEN x
    ELSE FAddAligned(x[1], NShl(x[2], x[3] - Min(x[3], y[3])),
                     y[1], NShl(y[2], y[3] - Min(x[3], y[3])),
                     Min(x[3], y[3]))

FSub(x, y) == FAdd(x, FNeg(y))

\* x / count for an integer 0 < count < 2^11, correctly rounded.
FDivInt(x, count) ==
    IF IsNaN(x) THEN NaN
    ELSE IF x[1] = 0 THEN Zero
    ELSE LET qr == NDivSmall(NShl(x[2], LimbBits), count)
         IN  Round(x[1], qr[1], x[3] - LimbBits, qr[2] # 0)

\* -1, 0 or 1 as |x| < |y|, |x| = |y| or |x| > |y|, on finite values: both
\* significands have the same width, so the exponent decides first.
MagnitudeCmp(x, y) ==
    IF x[1] = 0 \/ y[1] = 0 THEN Abs(x[1]) - Abs(y[1])
    ELSE IF x[3] # y[3] THEN (IF x[3] < y[3] THEN -1 ELSE 1)
    ELSE NCmp(x[2], y[2])

\* x <= y on finite values.
FLe(x, y) ==
    IF x[1] # y[1] THEN x[1] < y[1]
    ELSE x[1] * MagnitudeCmp(x, y) <= 0

\* The values of a column that are not NaN (skipna=True).
SkipNA(values) == SelectSeq(values, LAMBDA v : ~IsNaN(v))

\* ndarray.sum() of fewer than 8 values: added one by one from the left.
RECURSIVE FSumFrom(_, _, _)
FSumFrom(values, k, acc) ==
    IF k > Len(values) THEN acc
    ELSE FSumFrom(values, k + 1, FAdd(acc, values[k]))

FSum(values) == FSumFrom(values, 1, Zero)

\* Series.mean(): the sum of the non-NaN values over their count, NaN when
\* there are none.
Mean(values) ==
    LET valid == SkipNA(values)
    IN  IF valid = <<>> THEN NaN ELSE FDivInt(FSum(valid), Len(valid))

\* Results of the last steps of a z-score, whose magnitude is kept as the
\* operands: a standard deviation is NaN, Zero or <<devs>> for
\* sqrt(sum(devs^2) / count) with some dev not zero; a quotient by it is
\* NaN, Zero, <<sign>> for an infinity or <<x, devs>>.

\* The deviations of the values from avg.
Deviations(values, avg) == [k \in 1..Len(values) |-> FSub(avg, values[k])]

\* sqrt(sum(devs^2) / count): zero exactly when every deviation is zero.
StdOf(devs) ==
    IF \A k \in 1..Len(devs) : devs[k] = Zero THEN Zero ELSE <<devs>>

\* Series.std(ddof=0): two passes, the mean and then the squared deviations
\* from it; NaN when there is no value.
Std(values) ==
    IF SkipNA(values) = <<>> THEN NaN
    ELSE StdOf(Deviations(SkipNA(values), Mean(values)))

\* Float division of a finite-or-NaN value by a standard deviation:
\* 0/0 is NaN, x/0 is +/- infinity.
DivByStd(x, s) ==
    IF IsNaN(x) \/ IsNaN(s) THEN NaN
    ELSE IF s = Zero THEN (IF x = Zero THEN NaN ELSE <<x[1]>>)
    ELSE IF x = Zero THEN Zero
    ELSE <<x, s[1]>>

\* Difference of two such quotients, kept as the pair of its operands; NaN
\* when an operand is NaN or when both are the same infinity.
QuotSub(a, b) ==
    IF IsNaN(a) \/ IsNaN(b) THEN NaN
    ELSE IF Len(a) = 1 /\ a = b THEN NaN
    ELSE <<a, b>>

\* ------------------------------------------------------------ strings
Digits == {"0", "1", "2", "3", "4", "5", "6", "7", "8", "9"}

DigitVal(c) ==
    CASE c = "0" -> 0 [] c = "1" -> 1 [] c = "2" -> 2 [] c = "3" -> 3
      [] c = "4" -> 4 [] c = "5" -> 5 [] c = "6" -> 6 [] c = "7" -> 7
      [] c = "8" -> 8 [] c = "9" -> 9

IsDigits(s) == \A k \in 1..Len(s) : s[k] \in Digits

RECURSIVE IntOf(_)
IntOf(s) == IF s = <<>> THEN 0
            ELSE 10 * IntOf(SubSeq(s, 1, Len(s) - 1)) + DigitVal(s[Len(s)])

StartsWith(s, pre) == Len(s) >= Len(pre) /\ SubSeq(s, 1, Len(pre)) = pre

\* str.replace(old, ""): every non-overlapping occurrence of old removed,
\* scanning from the left.
RECURSIVE Remove(_, _)
Remove(s, old) ==
    IF s = <<>> THEN <<>>
    ELSE IF StartsWith(s, old) THEN Remove(SubSeq(s, Len(old) + 1, Len(s)), old)
    ELSE <<Head(s)>> \o Remove(Tail(s), old)

\* str.split(sep) for a one-character separator: the tokens between the
\* separators, empty tokens included; never an empty list.
RECURSIVE Split(_, _)
Split(s, sep) ==
    IF \A k \in 1..Len(s) : s[k] # sep THEN <<s>>
    ELSE LET at == CHOOSE k \in 1..Len(s) :
                       s[k] = sep /\ \A j \in 1..(k - 1) : s[j] # sep
         IN  <<SubSeq(s, 1, at - 1)>> \o Split(SubSeq(s, at + 1, Len(s)), sep)

DotCsv == <<".", "c", "s", "v">>

\* ------------------------------------------------------------ datetime
IsLeap(y) == (y % 4 = 0 /\ y % 100 # 0) \/ y % 400 = 0

DaysInMonth(y, m) ==
    IF m = 2 THEN (IF IsLeap(y) THEN 29 ELSE 28)
    ELSE IF m \in {4, 6, 9, 11} THEN 30 ELSE 31

\* Field widths strptime's regular expression tries, two digits first.
Widths == <<2, 1>>

\* %d%m%Y on a token: the first split (day, month of one or two digits, year
\* of four) whose fields the directive patterns accept; <<>> when none does.
DateFields(tok) ==
    LET ok(dw, mw) ==
            /\ dw + mw + 4 = Len(tok)
            /\ IntOf(SubSeq(tok, 1, dw)) \in 1..31
            /\ IntOf(SubSeq(tok, dw + 1, dw + mw)) \in 1..12
        pick == {w \in (1..2) \X (1..2) : ok(Widths[w[1]], Widths[w[2]])}
        first == CHOOSE w \in pick :
                     \A v \in pick : w[1] < v[1] \/ (w[1] = v[1] /\ w[2] <= v[2])
        dw == Widths[first[1]]
        mw == Widths[first[2]]
    IN  IF ~IsDigits(tok) \/ pick = {} THEN <<>>
        ELSE <<IntOf(SubSeq(tok, dw + mw + 1, Len(tok))),
               IntOf(SubSeq(tok, dw + 1, dw + mw)),
               IntOf(SubSeq(tok, 1, dw))>>

\* %H%M%S on a token, likewise (seconds up to 61 match the pattern).
TimeFields(tok) ==
    LET ok(hw, mw, sw) ==
            /\ hw + mw + sw = Len(tok)
            /\ IntOf(SubSeq(tok, 1, hw)) \in 0..23
            /\ IntOf(SubSeq(tok, hw + 1, hw + mw)) \in 0..59
            /\ IntOf(SubSeq(tok, hw + mw + 1, Len(tok))) \in 0..61
        pick == {w \in (1..2) \X (1..2) \X (1..2) :
                    ok(Widths[w[1]], Widths[w[2]], Widths[w[3]])}
        first == CHOOSE w \in pick :
                     \A v \in pick :
                         \/ w[1] < v[1]
                         \/ (w[1] = v[1] /\ w[2] < v[2])
                         \/ (w[1] = v[1] /\ w[2] = v[2] /\ w[3] <= v[3])
        hw == Widths[first[1]]
        mw == Widths[first[2]]
    IN  IF ~IsDigits(tok) \/ pick = {} THEN <<>>
        ELSE <<IntOf(SubSeq(tok, 1, hw)),
               IntOf(SubSeq(tok, hw + 1, hw + mw)),
               IntOf(SubSeq(tok, hw + mw + 1, Len(tok)))>>

\* datetime.strptime(date + "_" + time, "%d%m%Y_%H%M%S"): the datetime, or
\* <<>> where it raises ValueError (no match, or a date or second the
\* datetime constructor rejects).
Strptime(date, time) ==
    LET d == DateFields(date)
        t == TimeFields(time)
    IN  IF d = <<>> \/ t = <<>> THEN <<>>
        ELSE IF d[1] < 1 \/ d[3] > DaysInMonth(d[1], d[2]) \/ t[3] > 59 THEN <<>>
        ELSE d \o t

\* extract_timestamp(name), with now the value datetime.now() would return.
extract_timestamp(name, now) ==
    LET base == Remove(name, DotCsv)
        toks == Split(base, "_")
        parsed == Strptime(toks[Len(toks) - 1], toks[Len(toks)])
    IN  IF Len(toks) < 2 THEN now
        ELSE IF parsed = <<>> THEN now
        ELSE parsed

\* True when extract_timestamp takes the timestamp from the name.
NameParses(name) ==
    LET toks == Split(Remove(name, DotCsv), "_")
    IN  Len(toks) >= 2 /\ Strptime(toks[Len(toks) - 1], toks[Len(toks)]) # <<>>

\* a <= b on datetimes.
RECURSIVE LexLe(_, _)
LexLe(a, b) ==
    IF a = <<>> THEN TRUE
    ELSE IF Head(a) # Head(b) THEN Head(a) < Head(b)
    ELSE LexLe(Tail(a), Tail(b))

TsLe(a, b) == LexLe(a, b)

Pad2(n) == <<n \div 10, n % 10>>

\* strftime("%Y-%m-%d %H:%M:%S") as digits and separator marks (-1 "-",
\* -2 " ", -3 ":").
StrftimeFull(ts) ==
    <<ts[1] \div 1000, (ts[1] \div 100) % 10, (ts[1] \div 10) % 10, ts[1] % 10, -1>>
        \o Pad2(ts[2]) \o <<-1>> \o Pad2(ts[3]) \o <<-2>>
        \o Pad2(ts[4]) \o <<-3>> \o Pad2(ts[5]) \o <<-3>> \o Pad2(ts[6])

\* strftime("%H:%M:%S").
StrftimeTime(ts) == Pad2(ts[4]) \o <<-3>> \o Pad2(ts[5]) \o <<-3>> \o Pad2(ts[6])

\* ------------------------------------------------------------ pandas
\* Option as a sequence: None is <<>>, a value v is <<v>>.
None == <<>>

\* The orders (index permutations) of 1..n.
Perms(n) == {p \in [1..n -> 1..n] : \A a, b \in 1..n : p[a] = p[b] => a = b}

\* a <= b on the values of one column: datetimes (six fields) or finite
\* floats (three), as argsort compares by the dtype of the array.
ValueLe(a, b) == IF Len(a) = 6 THEN TsLe(a, b) ELSE FLe(a, b)

\* numpy argsort(kind="quicksort") of vals: numpy's quicksort sorts a
\* partition of at most 16 elements by insertion sort, so on the short
\* arrays of this model equal values keep their relative order.
Argsort(vals) ==
    CHOOSE p \in Perms(Len(vals)) :
        \A k \in 1..(Len(vals) - 1) :
            /\ ValueLe(vals[p[k]], vals[p[k + 1]])
            /\ ValueLe(vals[p[k + 1]], vals[p[k]]) => p[k] < p[k + 1]

\* pandas nargsort(items, "quicksort", ascending, na_position="last"): the
\* non-NaN positions argsorted (for a descending sort the items are
\* reversed, argsorted ascending and the result reversed), then the NaN
\* positions in their original order.
Nargsort(items, ascending) ==
    LET idx == [k \in 1..Len(items) |-> k]
        kept == SelectSeq(idx, LAMBDA k : ~IsNaN(items[k]))
        nan_idx == SelectSeq(idx, LAMBDA k : IsNaN(items[k]))
        non_nan_idx == IF ascending THEN kept ELSE Reverse(kept)
        non_nans == [k \in 1..Len(non_nan_idx) |-> items[non_nan_idx[k]]]
        order == Argsort(non_nans)
        indexer == [k \in 1..Len(non_nan_idx) |-> non_nan_idx[order[k]]]
    IN  (IF ascending THEN indexer ELSE Reverse(indexer)) \o nan_idx

\* The elements of a finite set of finite floats, ascending.
RECURSIVE SortedKeys(_)
SortedKeys(S) ==
    IF S = {} THEN <<>>
    ELSE LET least == CHOOSE x \in S : \A y \in S : FLe(x, y)
         IN  <<least>> \o SortedKeys(S \ {least})

Column(rows, col) == [k \in 1..Len(rows) |-> rows[k][col]]

\* df.groupby("CE_strikePrice")["CE_openInterest"].mean(): one entry per
\* distinct non-NaN strike (dropna), keys ascending (sort=True), each with
\* the mean of the open interest of its rows.
GroupbyMean(df) ==
    LET keys == SortedKeys({df.rows[k].CE_strikePrice : k \in 1..Len(df.rows)}
                               \ {NaN})
        group(key) == SelectSeq(df.rows, LAMBDA r : r.CE_strikePrice = key)
    IN  [k \in 1..Len(keys) |->
            [key |-> keys[k],
             value |-> Mean(Column(group(keys[k]), "CE_openInterest"))]]

\* Series.sort_values(ascending=False).
SortValuesDescending(series) ==
    LET values == [k \in 1..Len(series) |-> series[k].value]
        p == Nargsort(values, FALSE)
    IN  [k \in 1..Len(series) |-> series[p[k]]]

\* head(n - 1): one entry short of Series.head(n).
SeriesHeadShort(series, n) == SubSeq(series, 1, Min(n - 1, Len(series)))

\* Series.head(n).
SeriesHead(series, n) == SubSeq(series, 1, Min(n, Len(series)))

\* Lines 62-68: the list top_strikes is bound to for the first frame and n.
TopStrikes(first_df, n) ==
    LET top == SeriesHead(SortValuesDescending(GroupbyMean(first_df)), n)
    IN  [k \in 1..Len(top) |-> top[k].key]

\* The frame with the earliest timestamp instead of frames[0].
EarliestFrame(fs) ==
    fs[CHOOSE k \in 1..Len(fs) :
           \A j \in 1..Len(fs) :
               /\ TsLe(fs[k].timestamp, fs[j].timestamp)
               /\ (fs[j].timestamp = fs[k].timestamp => k <= j)]

\* frames[0]
FirstFrame(fs) == fs[1]

RequiredColumns == {"CE_strikePrice", "CE_openInterest"}

InList(x, list) == \E k \in 1..Len(list) : list[k] = x

\* df[df["CE_strikePrice"].isin(top_strikes)]: the rows kept.
Subset(df, strikes) ==
    SelectSeq(df.rows, LAMBDA r : InList(r.CE_strikePrice, strikes))

\* True when lines 77-82 raise KeyError for a frame: the strike column is
\* missing, or some row passes the filter and a price column is missing.
RaisesKeyError(df, strikes) ==
    IF "CE_strikePrice" \notin df.cols THEN TRUE
    ELSE IF Subset(df, strikes) = <<>> THEN FALSE
    ELSE "CE_lastPrice" \notin df.cols \/ "PE_lastPrice" \notin df.cols

\* The dict appended to summary for a frame.
SummaryRow(df, strikes) ==
    LET subset == Subset(df, strikes)
    IN  [timestamp |-> df.timestamp,
         Avg_CE |-> Mean(Column(subset, "CE_lastPrice")),
         Avg_PE |-> Mean(Column(subset, "PE_lastPrice"))]

\* pd.DataFrame(summary) left in the order of summary.
Unsorted(rows) == rows

\* pd.DataFrame(summary).sort_values("timestamp").
SortByTimestamp(rows) ==
    LET values == [k \in 1..Len(rows) |-> rows[k].timestamp]
        p == Nargsort(values, TRUE)
    IN  [k \in 1..Len(rows) |-> rows[p[k]]]

\* (x - mean) / std of a column, elementwise.
ZScore(values) ==
    LET mean == Mean(values)
        std == Std(values)
    IN  [k \in 1..Len(values) |-> DivByStd(FSub(values[k], mean), std)]

\* The frame df with the columns of lines 88-94 added, ce and pe being the
\* z-scores of its Avg_CE and Avg_PE.
WithNorms(df, ce, pe) ==
    [k \in 1..Len(df) |->
        [timestamp |-> df[k].timestamp,
         Avg_CE |-> df[k].Avg_CE,
         Avg_PE |-> df[k].Avg_PE,
         CE_norm |-> ce[k],
         PE_norm |-> pe[k],
         Diff_norm |-> QuotSub(ce[k], pe[k]),
         timestamp_str |-> StrftimeFull(df[k].timestamp),
         time_str |-> StrftimeTime(df[k].timestamp)]]

\* Lines 88-94: the frame with the normalized and display columns added.
Normalized(df) ==
    WithNorms(df, ZScore(Column(df, "Avg_CE")), ZScore(Column(df, "Avg_PE")))

\* cols and its renaming (lines 160-171), as <<column, shown name>>.
cols ==
    << <<"timestamp_str", "Timestamp">>, <<"time_str", "Time">>,
       <<"Avg_CE", "Avg CE">>, <<"Avg_PE", "Avg PE">>,
       <<"CE_norm", "Norm CE">>, <<"PE_norm", "Norm PE">>,
       <<"Diff_norm", "Norm Diff (CE-PE)">> >>

\* avg_df[cols].rename(columns=...)
ShowTable(df) ==
    [columns |-> [c \in 1..Len(cols) |-> cols[c][2]],
     rows |-> [k \in 1..Len(df) |-> [c \in 1..Len(cols) |-> df[k][cols[c][1]]]]]

\* ------------------------------------------------------------ inputs
AllColumns == {"CE_strikePrice", "CE_openInterest", "CE_lastPrice", "PE_lastPrice"}

Row(strike, oi, ce, pe) ==
    [CE_strikePrice |-> strike, CE_openInterest |-> oi,
     CE_lastPrice |-> ce, PE_lastPrice |-> pe]

\* An uploaded file: its name and what its bytes hold. text is "blank"
\* (empty or whitespace only), "malformed" (read_csv raises) or "csv"; for
\* "csv", cols and rows are the table read_csv returns.
File(name, text, columns, rows) ==
    [name |-> name, text |-> text, cols |-> columns, rows |-> rows]

\* "a_02012024_090000.csv"
NameLate ==
    <<"a", "_", "0", "2", "0", "1", "2", "0", "2", "4", "_",
      "0", "9", "0", "0", "0", "0", ".", "c", "s", "v">>

\* "b_01012024_153000.csv"
NameEarly ==
    <<"b", "_", "0", "1", "0", "1", "2", "0", "2", "4", "_",
      "1", "5", "3", "0", "0", "0", ".", "c", "s", "v">>

\* "notes.csv"
NameBad == <<"n", "o", "t", "e", "s", ".", "c", "s", "v">>

\* Values datetime.now() may return during the run.
NowSamples == {<<2026, 11, 3, 12, 0, 0>>, <<2026, 11, 3, 12, 0, 1>>}

\* Files of the multi-file inputs: one-row tables over two names, two
\* strikes and a few prices, a table under an unparsable name, a table
\* whose strike is missing, tables lacking one column, and files that hold
\* no table.
BatchFiles ==
    {File(NameLate, "csv", AllColumns,
          <<Row(Num(100), Num(50), Num(10), Num(10))>>),
     File(NameLate, "csv", AllColumns,
          <<Row(Num(200), Num(50), Num(20), Num(10))>>),
     File(NameEarly, "csv", AllColumns,
          <<Row(Num(100), Num(50), Num(10), Num(20))>>),
     File(NameEarly, "csv", AllColumns,
          <<Row(Num(200), Num(50), Num(10), Num(10))>>),
     File(NameBad, "csv", AllColumns,
          <<Row(Num(100), Num(50), Num(10), Num(10))>>),
     File(NameLate, "csv", AllColumns,
          <<Row(NaN, Num(50), Num(10), Num(10))>>),
     File(NameEarly, "csv", AllColumns \ {"CE_lastPrice"},
          <<Row(Num(100), Num(50), NaN, Num(10))>>),
     File(NameEarly, "csv", AllColumns \ {"PE_lastPrice"},
          <<Row(Num(100), Num(50), Num(10), NaN)>>),
     File(NameEarly, "csv", AllColumns \ {"CE_strikePrice"},
          <<Row(NaN, Num(50), Num(10), Num(10))>>),
     File(NameBad, "blank", {}, <<>>),
     File(NameBad, "malformed", {}, <<>>),
     File(NameBad, "csv", AllColumns, <<>>)}

\* Files of the one-strike inputs: one row at strike 100, the call price
\* 0.1 or 10.
SeriesFiles ==
    {File(n, "csv", AllColumns, <<Row(Num(100), Num(50), c, Num(10))>>) :
        n \in {NameLate, NameEarly}, c \in {Tenth, Num(10)}}

SeqsUpTo(S, n) == UNION {[1..k -> S] : k \in 0..n}

\* Rows of the single-file inputs: strikes and open interests vary.
SelectRows ==
    {Row(Num(100), Num(50), Num(10), Num(10)),
     Row(Num(200), Num(50), Num(10), Num(10)),
     Row(Num(200), Num(80), Num(10), Num(10)),
     Row(Num(300), NaN, Num(10), Num(10)),
     Row(NaN, Num(50), Num(10), Num(10))}

\* The <<uploaded, num_strikes>> a run may start from.
Inputs ==
    (SeqsUpTo(BatchFiles, MaxFiles) \X {SliderDefault})
    \cup (SeqsUpTo(SeriesFiles, MaxSeries) \X {SliderDefault})
    \cup ({<<File(NameLate, "csv", AllColumns, rows)>> :
              rows \in SeqsUpTo(SelectRows, MaxRows) \ {<<>>}}
          \X {SliderMin, SliderMin + 1, SliderMax})

\* ------------------------------------------------------------ state
VARIABLES
    uploaded,     \* st.file_uploader's files, in upload order
    num_strikes,  \* the slider's value
    pc,           \* position in the script
    i,            \* index of the running for loop
    clock,        \* the last value datetime.now() returned
    frames,       \* frames
    top_strikes,  \* top_strikes
    summary,      \* summary
    avg_df,       \* avg_df
    show,         \* the table passed to st.dataframe, <<>> before that
    ui            \* the elements written to the page, in order

vars == <<uploaded, num_strikes, pc, i, clock, frames, top_strikes, summary,
          avg_df, show, ui>>

Element(widget, text) == [widget |-> widget, text |-> text]

\* safe_read(f): None, or the DataFrame read.
safe_read(f) ==
    IF f.text = "blank" THEN None
    ELSE IF f.text = "malformed" THEN None
    ELSE <<[cols |-> f.cols, rows |-> f.rows]>>

\* Line 47 testing only df is None.
IsNoneOnly(df) == df = None

\* Line 47: df is None or df.empty.
IsSkipped(df) == df = None \/ df[1].rows = <<>>

Init ==
    /\ \E input \in Inputs :
           /\ uploaded = input[1]
           /\ num_strikes = input[2]
    /\ pc = "load"
    /\ i = 1
    /\ clock = <<2026, 11, 3, 12, 0, 0>>
    /\ frames = <<>>
    /\ top_strikes = <<>>
    /\ summary = <<>>
    /\ avg_df = <<>>
    /\ show = <<>>
    /\ ui = <<>>

\* Lines 17-19: nothing uploaded.
StopNoUpload ==
    /\ pc = "load"
    /\ uploaded = <<>>
    /\ ui' = Append(ui, Element("info", "Upload CSV files to start."))
    /\ pc' = "stopped"
    /\ UNCHANGED <<uploaded, num_strikes, i, clock, frames, top_strikes,
                   summary, avg_df, show>>

\* Lines 45-50: one iteration of the loading loop.
LoadFile ==
    /\ pc = "load"
    /\ i <= Len(uploaded)
    /\ LET f == uploaded[i]
           df == safe_read(f)
       IN  IF IsSkipped(df)
           THEN UNCHANGED <<frames, clock>>
           ELSE \E now \in NowSamples :
                   /\ TsLe(clock, now)
                   /\ clock' = IF NameParses(f.name) THEN clock ELSE now
                   /\ frames' = Append(frames,
                          [cols |-> df[1].cols \cup {"timestamp"},
                           rows |-> df[1].rows,
                           timestamp |-> extract_timestamp(f.name, now)])
    /\ i' = i + 1
    /\ pc' = IF i = Len(uploaded) THEN "pick" ELSE "load"
    /\ UNCHANGED <<uploaded, num_strikes, top_strikes, summary, avg_df, show, ui>>

\* Lines 52-54: no frame was loaded.
StopNoFrames ==
    /\ pc = "pick"
    /\ frames = <<>>
    /\ ui' = Append(ui, Element("error", "No valid CSV data found."))
    /\ pc' = "stopped"
    /\ UNCHANGED <<uploaded, num_strikes, i, clock, frames, top_strikes,
                   summary, avg_df, show>>

\* Lines 57-60: the first frame lacks a column the ranking needs.
StopMissingColumns ==
    /\ pc = "pick"
    /\ frames # <<>>
    /\ ~(RequiredColumns \subseteq FirstFrame(frames).cols)
    /\ ui' = Append(ui, Element("error", "Missing expected columns in CSV."))
    /\ pc' = "stopped"
    /\ UNCHANGED <<uploaded, num_strikes, i, clock, frames, top_strikes,
                   summary, avg_df, show>>

\* Lines 57-72: rank the strikes of the first frame and show them.
PickTopStrikes ==
    /\ pc = "pick"
    /\ frames # <<>>
    /\ RequiredColumns \subseteq FirstFrame(frames).cols
    /\ top_strikes' = TopStrikes(FirstFrame(frames), num_strikes)
    /\ ui' = Append(ui, Element("caption", "Top strikes (from first file)"))
    /\ i' = 1
    /\ pc' = "average"
    /\ UNCHANGED <<uploaded, num_strikes, clock, frames, summary, avg_df, show>>

\* Lines 76-83: one iteration of the averaging loop; an uncaught KeyError
\* ends the run with the exception written to the page.
AverageFile ==
    /\ pc = "average"
    /\ i <= Len(frames)
    /\ LET df == frames[i]
       IN  IF RaisesKeyError(df, top_strikes)
           THEN /\ pc' = "exception"
                /\ ui' = Append(ui, Element("exception", "KeyError"))
                /\ UNCHANGED <<summary, i>>
           ELSE /\ summary' = IF Subset(df, top_strikes) = <<>> THEN summary
                              ELSE Append(summary, SummaryRow(df, top_strikes))
                /\ i' = i + 1
                /\ pc' = IF i = Len(frames) THEN "sort" ELSE "average"
                /\ UNCHANGED ui
    /\ UNCHANGED <<uploaded, num_strikes, clock, frames, top_strikes, avg_df, show>>

\* Line 85: build avg_df and sort it; with no summary row the frame has no
\* "timestamp" column and sort_values raises KeyError.
SortSummary ==
    /\ pc = "sort"
    /\ IF summary = <<>>
       THEN /\ pc' = "exception"
            /\ ui' = Append(ui, Element("exception", "KeyError"))
            /\ UNCHANGED avg_df
       ELSE /\ avg_df' = SortByTimestamp(summary)
            /\ pc' = "normalize"
            /\ UNCHANGED ui
    /\ UNCHANGED <<uploaded, num_strikes, i, clock, frames, top_strikes,
                   summary, show>>

\* Lines 88-94: z-scores and display strings.
Normalize ==
    /\ pc = "normalize"
    /\ avg_df' = Normalized(avg_df)
    /\ pc' = "display"
    /\ UNCHANGED <<uploaded, num_strikes, i, clock, frames, top_strikes,
                   summary, show, ui>>

\* Lines 97-179: the three charts, the table and the download button.
Display ==
    /\ pc = "display"
    /\ show' = <<ShowTable(avg_df)>>
    /\ ui' = ui \o <<Element("altair_chart", "CE_norm"),
                     Element("altair_chart", "PE_norm"),
                     Element("altair_chart", "Diff_norm"),
                     Element("dataframe", "show"),
                     Element("download_button", "normalized_ce_pe_summary.csv")>>
    /\ pc' = "done"
    /\ UNCHANGED <<uploaded, num_strikes, i, clock, frames, top_strikes,
                   summary, avg_df>>

Next ==
    \/ StopNoUpload
    \/ LoadFile
    \/ StopNoFrames
    \/ StopMissingColumns
    \/ PickTopStrikes
    \/ AverageFile
    \/ SortSummary
    \/ Normalize
    \/ Display

Spec == Init /\ [][Next]_vars

\* ------------------------------------------------------------ claims
AfterPick == {"average", "sort", "normalize", "display", "done"}

Sorted == {"normalize", "display", "done"}

AllNamesParse == \A k \in 1..Len(uploaded) : NameParses(uploaded[k].name)

\* An uploaded file that holds a table with at least one row.
HoldsTable(f) == f.text = "csv" /\ f.rows # <<>>

\* C1: when every uploaded filename parses to a timestamp, the records of
\* avg_df, and the Timestamp column of the table shown, are in non-decreasing
\* timestamp order whatever the upload order was.
C1_SortedByTimestamp ==
    (pc \in Sorted /\ AllNamesParse) =>
        /\ \A k \in 1..(Len(avg_df) - 1) :
               TsLe(avg_df[k].timestamp, avg_df[k + 1].timestamp)
        /\ pc = "done" =>
               \A k \in 1..(Len(show[1].rows) - 1) :
                   LexLe(show[1].rows[k][1], show[1].rows[k + 1][1])

\* C1 witness: two files uploaded latest first, both kept, shown earliest
\* first.
C1_Witness ==
    /\ pc = "done"
    /\ AllNamesParse
    /\ Len(frames) = 2
    /\ Len(avg_df) = 2
    /\ frames[1].timestamp # frames[2].timestamp
    /\ TsLe(frames[2].timestamp, frames[1].timestamp)
    /\ avg_df[1].timestamp = frames[2].timestamp
    /\ avg_df[2].timestamp = frames[1].timestamp

\* The first uploaded file, in upload order, that holds a table with rows.
FirstValidUpload ==
    uploaded[CHOOSE k \in 1..Len(uploaded) :
                 /\ HoldsTable(uploaded[k])
                 /\ \A j \in 1..(k - 1) : ~HoldsTable(uploaded[j])]

\* The rows of a frame whose strike is one of top_strikes.
RowsInTopStrikes(df) ==
    SelectSeq(df.rows,
              LAMBDA r : \E k \in 1..Len(top_strikes) :
                             top_strikes[k] = r.CE_strikePrice)

\* The records the frames processed so far contribute under top_strikes.
ExpectedSummary ==
    LET n == IF pc = "average" THEN i - 1 ELSE Len(frames)
        kept == SelectSeq(SubSeq(frames, 1, n),
                          LAMBDA df : RowsInTopStrikes(df) # <<>>)
        record(df) ==
            LET rows == RowsInTopStrikes(df)
            IN  [timestamp |-> df.timestamp,
                 Avg_CE |-> Mean(Column(rows, "CE_lastPrice")),
                 Avg_PE |-> Mean(Column(rows, "PE_lastPrice"))]
    IN  [k \in 1..Len(kept) |-> record(kept[k])]

C2_FromFirstValid ==
    pc \in AfterPick =>
        /\ top_strikes =
               TopStrikes([cols |-> FirstValidUpload.cols,
                           rows |-> FirstValidUpload.rows], num_strikes)
        /\ summary = ExpectedSummary

\* C2: top_strikes is ranked from the first valid file in upload order, is
\* never assigned again once set, and every record of summary, the reference
\* file's own included, is computed from the rows that this one list keeps.
C2_ReferenceStrikesOnce ==
    /\ [](C2_FromFirstValid)
    /\ [][(pc \in AfterPick) => (top_strikes' = top_strikes)]_vars

\* C2 witness: the second file has the earlier timestamp and another strike;
\* the strikes come from the first file and the second file is filtered
\* out by them.
C2_Witness ==
    /\ pc = "done"
    /\ Len(frames) = 2
    /\ frames[1].timestamp # frames[2].timestamp
    /\ TsLe(frames[2].timestamp, frames[1].timestamp)
    /\ top_strikes = <<frames[1].rows[1].CE_strikePrice>>
    /\ frames[2].rows[1].CE_strikePrice \notin {NaN, top_strikes[1]}
    /\ Len(summary) = 1
    /\ summary[1].timestamp = frames[1].timestamp

\* The distinct strikes of the reference frame (a missing strike is none).
ReferenceStrikes ==
    {frames[1].rows[k].CE_strikePrice : k \in 1..Len(frames[1].rows)} \ {NaN}

\* C3: top_strikes holds exactly min(num_strikes, number of distinct strikes
\* of the reference frame) strikes, all different and all present in the
\* reference frame; more strikes asked for than present gives them all.
C3_SelectionSize ==
    pc \in AfterPick =>
        /\ Len(top_strikes) = Min(num_strikes, Cardinality(ReferenceStrikes))
        /\ \A k \in 1..Len(top_strikes) : top_strikes[k] \in ReferenceStrikes
        /\ \A a, b \in 1..Len(top_strikes) : top_strikes[a] = top_strikes[b] => a = b
        /\ num_strikes >= Cardinality(ReferenceStrikes) =>
               {top_strikes[k] : k \in 1..Len(top_strikes)} = ReferenceStrikes

\* C3 witness: a run asked for the slider's maximum on a reference frame of
\* three distinct strikes and got the three.
C3_Witness ==
    /\ pc = "done"
    /\ num_strikes = SliderMax
    /\ Cardinality(ReferenceStrikes) = 3
    /\ Len(top_strikes) = 3

\* Mean open interest of a strike in the reference frame.
ReferenceMeanOI(strike) ==
    Mean(Column(SelectSeq(frames[1].rows, LAMBDA r : r.CE_strikePrice = strike),
                "CE_openInterest"))

\* Index of the first row of the reference frame with the strike.
FirstSeen(strike) ==
    CHOOSE k \in 1..Len(frames[1].rows) :
        /\ frames[1].rows[k].CE_strikePrice = strike
        /\ \A j \in 1..(k - 1) : frames[1].rows[j].CE_strikePrice # strike

\* Two strikes of the reference frame have the same defined mean open
\* interest.
Tied(s, t) ==
    /\ ReferenceMeanOI(s) # NaN
    /\ ReferenceMeanOI(s) = ReferenceMeanOI(t)

\* C4: among strikes of the reference frame with equal mean open interest
\* the one seen first in the file ranks first: a selected strike precedes in
\* top_strikes every later-seen selected strike tied with it, and no
\* unselected strike tied with a selected one was seen before it.
C4_TiesByFirstSeen ==
    pc \in AfterPick =>
        /\ \A a, b \in 1..Len(top_strikes) :
               (a < b /\ Tied(top_strikes[a], top_strikes[b]))
               => FirstSeen(top_strikes[a]) < FirstSeen(top_strikes[b])
        /\ \A a \in 1..Len(top_strikes) :
               \A u \in ReferenceStrikes \ {top_strikes[k] : k \in 1..Len(top_strikes)} :
                   Tied(top_strikes[a], u)
                   => FirstSeen(top_strikes[a]) < FirstSeen(u)

Terminated == pc \in {"stopped", "done", "exception"}

Widgets(kinds) == SelectSeq(ui, LAMBDA e : e.widget \in kinds)

\* C5: when the averaging loop has run over every frame and kept no record,
\* the run ends with exactly one error message written by the script, no
\* uncaught exception, and no chart, table or download.
C5_ZeroRecordsDescriptiveError ==
    (/\ Terminated
     /\ pc # "done" => i > Len(frames)
     /\ frames # <<>>
     /\ RequiredColumns \subseteq frames[1].cols
     /\ summary = <<>>)
    => /\ Len(Widgets({"error"})) = 1
       /\ Widgets({"exception"}) = <<>>
       /\ Widgets({"altair_chart", "dataframe", "download_button"}) = <<>>
       /\ show = <<>>

\* C6: when no uploaded file holds a table with rows, the run never gets
\* past the check after loading: nothing is ranked, averaged, normalized or
\* shown, and it stops with the one error "No valid CSV data found.".
C6_NoValidFileAborts ==
    (uploaded # <<>> /\ \A k \in 1..Len(uploaded) : ~HoldsTable(uploaded[k])) =>
        /\ pc \in {"load", "pick", "stopped"}
        /\ frames = <<>>
        /\ top_strikes = <<>> /\ summary = <<>> /\ avg_df = <<>> /\ show = <<>>
        /\ ui = IF pc = "stopped"
                THEN <<Element("error", "No valid CSV data found.")>>
                ELSE <<>>

\* C6 witness: two files, one blank and one without rows, and the run
\* stopped on the error.
C6_Witness ==
    /\ pc = "stopped"
    /\ Len(uploaded) = 2
    /\ uploaded[1].text = "blank"
    /\ uploaded[2].text = "csv" /\ uploaded[2].rows = <<>>
    /\ ui = <<Element("error", "No valid CSV data found.")>>

\* C7: at the end of a run every file skipped while loading and every frame
\* skipped while averaging has a warning of its own on the page.
C7_SkipsAreWarned ==
    pc \in {"stopped", "done"} =>
        Len(Widgets({"warning"})) >=
            Len(SelectSeq(uploaded, LAMBDA f : ~HoldsTable(f)))
            + (IF pc = "done"
               THEN Len(SelectSeq(frames, LAMBDA df : RowsInTopStrikes(df) = <<>>))
               ELSE 0)

\* A frame lacks a last-price column but has the strike column.
LacksPrice(df) ==
    /\ "CE_strikePrice" \in df.cols
    /\ \/ "CE_lastPrice" \notin df.cols
       \/ "PE_lastPrice" \notin df.cols

\* C8: when the reference frame has every column and yields a record, a
\* later frame lacking CE_lastPrice or PE_lastPrice does not end the run:
\* no exception is raised, and at the end every frame with a row in
\* top_strikes has its record, undefined on the missing side.
C8_MissingPriceColumnTolerated ==
    (/\ pc \in AfterPick \cup {"exception"}
     /\ AllColumns \subseteq frames[1].cols
     /\ top_strikes # <<>>
     /\ \A k \in 2..Len(frames) : "CE_strikePrice" \in frames[k].cols
     /\ \E k \in 2..Len(frames) : LacksPrice(frames[k]))
    => /\ pc # "exception"
       /\ pc = "done" => summary = ExpectedSummary

\* C9: every record of the result carries ce_minus_pe = Avg_CE - Avg_PE and
\* the table shown has a raw CE-PE column next to Avg CE and Avg PE.
C9_RawDifferenceColumn ==
    pc = "done" =>
        /\ \A k \in 1..Len(avg_df) :
               /\ "ce_minus_pe" \in DOMAIN avg_df[k]
               /\ avg_df[k].ce_minus_pe = FSub(avg_df[k].Avg_CE, avg_df[k].Avg_PE)
        /\ \E c \in 1..Len(show[1].columns) : show[1].columns[c] = "CE-PE"

AllSame(df, col) == \A a, b \in 1..Len(df) : df[a][col] = df[b][col]

\* C10: when every record has the same Avg_CE, CE_norm is NaN in every
\* record; when every record has the same Avg_PE, PE_norm is NaN in every
\* record; in both cases Diff_norm is NaN too. A single record is such a
\* batch.
C10_ZeroVarianceIsNaN ==
    pc \in {"display", "done"} =>
        /\ AllSame(avg_df, "Avg_CE") =>
               \A k \in 1..Len(avg_df) :
                   avg_df[k].CE_norm = NaN /\ avg_df[k].Diff_norm = NaN
        /\ AllSame(avg_df, "Avg_PE") =>
               \A k \in 1..Len(avg_df) :
                   avg_df[k].PE_norm = NaN /\ avg_df[k].Diff_norm = NaN
        /\ Len(avg_df) = 1 =>
               /\ avg_df[1].CE_norm = NaN
               /\ avg_df[1].PE_norm = NaN
               /\ avg_df[1].Diff_norm = NaN

====
